---- MODULE Spec2Model ----
(***************************************************************************)
(* Model of relation_theory: functional dependencies (fd.py) and relation  *)
(* schemas (rs.py).  A schema object is built once (Init) and its methods  *)
(* are then called on it; every method is a pure function of the object,   *)
(* so a call records its argument and its return value and hands control   *)
(* back to the caller.                                                     *)
(***************************************************************************)
EXTENDS Integers, Sequences, FiniteSets, TLC

VARIABLES attributes, fds, op, arg, ret, default_fds, instances

vars == <<attributes, fds, op, arg, ret, default_fds, instances>>

(***************************************************************************)
(* Bounds of the model.                                                    *)
(***************************************************************************)
\* longest FD list a schema is built with
MaxFDs == 2
\* longest fragment list handed to is_lossless_decomposition
MaxFrags == 2
\* most FDSet objects built by the constructor, and longest list they grow to
MaxInstances == 2
\* longest key list handed to _judge_2NF on its own
MaxKeys == 2
\* longest dependency string handed to from_str
MaxStrLen == 4
MaxListLen == 2

(***************************************************************************)
(* Attributes are Python strings: sequences of characters.  Attrs is the   *)
(* pool the schemas are built from (single characters, as from_str         *)
(* produces them).                                                         *)
(***************************************************************************)
Attrs == {<<"A">>, <<"B">>, <<"C">>}
\* a pool with an identifier of two characters
\* the pool of the FD lists that are compared with each other
TwoAttrs == {<<"A">>, <<"B">>}
LongAttrs == {<<"A">>, <<"B">>, <<"A", "B">>}

\* frozenset(s) for a string s: the set of its characters, each a string
CharSet(s) == {<<s[i]>> : i \in DOMAIN s}

\* FD.__init__: both sides are frozen as sets
FD(lhs, rhs) == [lhs |-> lhs, rhs |-> rhs]

\* every FD over a pool of attributes (either side may be empty)
FDsOver(pool) == {FD(l, r) : l \in SUBSET pool, r \in SUBSET pool}

\* sequences of length at most n over a set
SeqsUpTo(S, n) == UNION {[1..k -> S] : k \in 0..n}

\* the attributes an FD list mentions
Mentioned(F) == UNION {F[i].lhs \cup F[i].rhs : i \in DOMAIN F}

(***************************************************************************)
(* FDSet.closure: the fixed-point loop.  ClosurePass is one run of the     *)
(* inner for loop from list position i on; it returns the grown set and    *)
(* the changed flag.  ClosureLoop is the while loop, counting its passes.  *)
(***************************************************************************)
\* the inner loop without the test that the left side is already derived
RECURSIVE ClosurePassNoLhsTest(_, _, _, _)
ClosurePassNoLhsTest(F, i, closure_set, changed) ==
    IF i > Len(F) THEN [set |-> closure_set, changed |-> changed]
    ELSE IF ~(F[i].rhs \subseteq closure_set)
         THEN ClosurePassNoLhsTest(F, i + 1, closure_set \cup F[i].rhs, TRUE)
         ELSE ClosurePassNoLhsTest(F, i + 1, closure_set, changed)

RECURSIVE ClosurePass(_, _, _, _)
ClosurePass(F, i, closure_set, changed) ==
    IF i > Len(F) THEN [set |-> closure_set, changed |-> changed]
    ELSE IF F[i].lhs \subseteq closure_set /\ ~(F[i].rhs \subseteq closure_set)
         THEN ClosurePass(F, i + 1, closure_set \cup F[i].rhs, TRUE)
         ELSE ClosurePass(F, i + 1, closure_set, changed)

\* the while loop run as an if: one pass over the list and no more
ClosureLoopOnce(F, closure_set, passes) ==
    [set |-> ClosurePass(F, 1, closure_set, FALSE).set, passes |-> passes + 1]

RECURSIVE ClosureLoop(_, _, _)
ClosureLoop(F, closure_set, passes) ==
    LET p == ClosurePass(F, 1, closure_set, FALSE)
    IN  IF p.changed THEN ClosureLoop(F, p.set, passes + 1)
        ELSE [set |-> p.set, passes |-> passes + 1]

closure(F, attrs) == ClosureLoop(F, attrs, 0).set

\* number of passes of the while loop that closure(F, attrs) makes
closure_passes(F, attrs) == ClosureLoop(F, attrs, 0).passes

\* FDSet.implies
implies(F, fd) == fd.rhs \subseteq closure(F, fd.lhs)

(***************************************************************************)
(* Iteration over a Python set visits its elements in an order the program *)
(* does not control (it follows the string hashes).  Orders(S) are the     *)
(* orders a loop over S can take; a loop over the same frozenset object    *)
(* always takes the same one.                                              *)
(***************************************************************************)
Orders(S) ==
    {o \in [1..Cardinality(S) -> S] : \A i, j \in DOMAIN o : i # j => o[i] # o[j]}

\* all sequences q of the length of sets with q[i] \in sets[i]
RECURSIVE ProductSeq(_)
ProductSeq(sets) ==
    IF sets = <<>> THEN {<<>>}
    ELSE {<<h>> \o t : h \in Head(sets), t \in ProductSeq(Tail(sets))}

\* one iteration order for the right side, and one for the left side, of each FD
RhsOrders(F) == ProductSeq([i \in DOMAIN F |-> Orders(F[i].rhs)])
LhsOrders(F) == ProductSeq([i \in DOMAIN F |-> Orders(F[i].lhs)])

(***************************************************************************)
(* FDSet.singleton_rhs.  rhsIter[i] is the order in which the loop         *)
(* `for attr in fd.rhs` visits the right side of the i-th FD.  The new FD  *)
(* keeps the left side object and gets frozenset(attr) as its right side.  *)
(***************************************************************************)
RECURSIVE singleton_rhs_from(_, _, _)
singleton_rhs_from(F, rhsIter, i) ==
    IF i > Len(F) THEN <<>>
    ELSE [k \in 1..Len(rhsIter[i]) |-> FD(F[i].lhs, CharSet(rhsIter[i][k]))]
         \o singleton_rhs_from(F, rhsIter, i + 1)

singleton_rhs(F, rhsIter) == singleton_rhs_from(F, rhsIter, 1)

\* for each FD of singleton_rhs(F, rhsIter), the position in F of the FD whose
\* left side object it shares
RECURSIVE singleton_origin_from(_, _, _)
singleton_origin_from(F, rhsIter, i) ==
    IF i > Len(F) THEN <<>>
    ELSE [k \in 1..Len(rhsIter[i]) |-> i] \o singleton_origin_from(F, rhsIter, i + 1)

singleton_origin(F, rhsIter) == singleton_origin_from(F, rhsIter, 1)

(***************************************************************************)
(* FDSet.canonical_cover, step 2: the loop `for attr in list(fd.lhs)` for  *)
(* one elementary FD.  order is the iteration order of fd.lhs, k the       *)
(* position reached, closures are taken over all of singleton_fds.         *)
(***************************************************************************)
\* the loop that tests every attribute and discards none
MinimizeLhsDiscardNone(singleton_fds, order, k, minimal_lhs, rhs_attr) == minimal_lhs

RECURSIVE MinimizeLhs(_, _, _, _, _)
MinimizeLhs(singleton_fds, order, k, minimal_lhs, rhs_attr) ==
    IF k > Len(order) THEN minimal_lhs
    ELSE LET candidate == minimal_lhs \ {order[k]}
         IN  IF rhs_attr \in closure(singleton_fds, candidate)
             THEN MinimizeLhs(singleton_fds, order, k + 1,
                              minimal_lhs \ {order[k]}, rhs_attr)
             ELSE MinimizeLhs(singleton_fds, order, k + 1, minimal_lhs, rhs_attr)

\* step 2 as a whole: minimized_fds.  first[n] is next(iter(fd.rhs)) for the
\* n-th elementary FD, and lhsIter[origin[n]] the iteration order of its left side
minimized_fds(singleton_fds, origin, lhsIter, first) ==
    [n \in DOMAIN singleton_fds |->
        FD(MinimizeLhs(singleton_fds, lhsIter[origin[n]], 1,
                       singleton_fds[n].lhs, first[n]),
           CharSet(first[n]))]

\* the manual de-duplication: keeps the first occurrence of every FD
RECURSIVE unique_fds_from(_, _, _)
unique_fds_from(minimized, n, unique) ==
    IF n > Len(minimized) THEN unique
    ELSE IF \E j \in DOMAIN unique : unique[j] = minimized[n]
         THEN unique_fds_from(minimized, n + 1, unique)
         ELSE unique_fds_from(minimized, n + 1, Append(unique, minimized[n]))

\* unique_fds[:i] + unique_fds[i + 1:], with i a 1-based position
Without(list, i) == SubSeq(list, 1, i - 1) \o SubSeq(list, i + 1, Len(list))

(***************************************************************************)
(* Step 3: RemovePass is the inner while loop over i, RemoveLoop the outer *)
(* `while changed` loop.                                                   *)
(***************************************************************************)
\* the inner loop testing each FD against the whole list, itself included
RECURSIVE RemovePassSelfIncluded(_, _, _)
RemovePassSelfIncluded(unique, i, changed) ==
    IF i > Len(unique) THEN [list |-> unique, changed |-> changed]
    ELSE IF implies(unique, unique[i])
         THEN RemovePassSelfIncluded(Without(unique, i), i, TRUE)
         ELSE RemovePassSelfIncluded(unique, i + 1, changed)

RECURSIVE RemovePass(_, _, _)
RemovePass(unique, i, changed) ==
    IF i > Len(unique) THEN [list |-> unique, changed |-> changed]
    ELSE IF implies(Without(unique, i), unique[i])
         THEN RemovePass(Without(unique, i), i, TRUE)
         ELSE RemovePass(unique, i + 1, changed)

RECURSIVE RemoveLoop(_)
RemoveLoop(unique) ==
    LET p == RemovePass(unique, 1, FALSE)
    IN  IF p.changed THEN RemoveLoop(p.list) ELSE p.list

\* FDSet.canonical_cover under the iteration orders rhsIter, lhsIter and the
\* picks first of next(iter(fd.rhs))
canonical_cover(F, rhsIter, lhsIter, first) ==
    LET singleton_fds == singleton_rhs(F, rhsIter)
        origin == singleton_origin(F, rhsIter)
        minimized == minimized_fds(singleton_fds, origin, lhsIter, first)
    IN  RemoveLoop(unique_fds_from(minimized, 1, <<>>))

\* next(iter(fd.rhs)) raises StopIteration on an empty right side
cover_raises_on_empty_side(singleton_fds) ==
    \E n \in DOMAIN singleton_fds :
       singleton_fds[n].rhs = {} \/ singleton_fds[n].lhs = {}

cover_raises(singleton_fds) ==
    \E n \in DOMAIN singleton_fds : singleton_fds[n].rhs = {}

\* the picks next(iter(fd.rhs)) can make for each FD of a list; none when a
\* right side is empty (StopIteration)
FirstPicks(singleton_fds) ==
    ProductSeq([n \in DOMAIN singleton_fds |-> singleton_fds[n].rhs])

\* only the first loop of __eq__
FDSetEqOneWay(F, G) == \A i \in DOMAIN F : implies(G, F[i])

\* FDSet.__eq__: mutual implication
FDSetEq(F, G) ==
    /\ \A i \in DOMAIN F : implies(G, F[i])
    /\ \A i \in DOMAIN G : implies(F, G[i])

(***************************************************************************)
(* RelationSchema.candidate_keys.  bothOrder is the order in which         *)
(* combinations() reads the set both.                                      *)
(***************************************************************************)
all_left(F) == UNION {F[i].lhs : i \in DOMAIN F}
all_right(F) == UNION {F[i].rhs : i \in DOMAIN F}
left_only(F) == all_left(F) \ all_right(F)
both_sides(F) == all_left(F) \cap all_right(F)
isolated(U, F) == U \ (all_left(F) \cup all_right(F))

\* itertools.combinations(pool, r): the r-element selections of the sequence
\* pool, in lexicographic order of their positions
RECURSIVE combinations(_, _)
combinations(pool, r) ==
    IF r = 0 THEN <<{}>>
    ELSE IF Len(pool) < r THEN <<>>
    ELSE LET withHead == combinations(Tail(pool), r - 1)
         IN  [k \in DOMAIN withHead |-> {Head(pool)} \cup withHead[k]]
             \o combinations(Tail(pool), r)

\* the outer loop over range(len(both)): the subset of all of both is never tried
RECURSIVE subsets_from_short(_, _)
subsets_from_short(bothOrder, r) ==
    IF r >= Len(bothOrder) THEN <<>>
    ELSE combinations(bothOrder, r) \o subsets_from_short(bothOrder, r + 1)

\* the subsets of both in the order the two nested loops visit them
RECURSIVE subsets_from(_, _)
subsets_from(bothOrder, r) ==
    IF r > Len(bothOrder) THEN <<>>
    ELSE combinations(bothOrder, r) \o subsets_from(bothOrder, r + 1)

\* the superkey test with the minimality loop left out
is_key_no_minimality(U, F, candidate) == closure(F, candidate) = U

\* the body of the loops: the superkey test and the minimality test
is_key(U, F, candidate) ==
    /\ closure(F, candidate) = U
    /\ \A attr \in candidate : closure(F, candidate \ {attr}) # U

RECURSIVE candidates_from(_, _, _, _)
candidates_from(U, F, subsets, k) ==
    IF k > Len(subsets) THEN <<>>
    ELSE LET candidate == left_only(F) \cup subsets[k] \cup isolated(U, F)
         IN  (IF is_key(U, F, candidate) THEN <<candidate>> ELSE <<>>)
             \o candidates_from(U, F, subsets, k + 1)

candidate_keys(U, F, bothOrder) ==
    candidates_from(U, F, subsets_from(bothOrder, 0), 1)

(***************************************************************************)
(* The texts of the violation messages: ''.join(sorted(s)).                *)
(***************************************************************************)
\* the code point order of the characters in use
CharRank(c) == CASE c = "A" -> 1 [] c = "B" -> 2 [] c = "C" -> 3 [] c = "D" -> 4
                 [] OTHER -> 5

\* s < t for Python strings
RECURSIVE StrLess(_, _)
StrLess(s, t) ==
    IF t = <<>> THEN FALSE
    ELSE IF s = <<>> THEN TRUE
    ELSE IF Head(s) = Head(t) THEN StrLess(Tail(s), Tail(t))
    ELSE CharRank(Head(s)) < CharRank(Head(t))

\* ''.join(sorted(S))
RECURSIVE JoinSorted(_)
JoinSorted(S) ==
    IF S = {} THEN <<>>
    ELSE LET least == CHOOSE x \in S : \A y \in S \ {x} : StrLess(x, y)
         IN  least \o JoinSorted(S \ {least})

prime_attrs(keys) == UNION {keys[k] : k \in DOMAIN keys}

(***************************************************************************)
(* The three judges.  keys is the candidate key list, atomic_fds the       *)
(* elementary FD list singleton_rhs() returned.                            *)
(***************************************************************************)
\* the first key, from position k on, that fd partially depends on; 0 if none
\* fd.lhs <= key in place of fd.lhs < key
first_partial_key_or_equal(fd, keys, k) ==
    IF \E j \in DOMAIN keys : /\ fd.lhs \subseteq keys[j]
                              /\ ~(fd.rhs \subseteq prime_attrs(keys))
    THEN CHOOSE j \in DOMAIN keys : fd.lhs \subseteq keys[j]
    ELSE 0

RECURSIVE first_partial_key(_, _, _)
first_partial_key(fd, keys, k) ==
    IF k > Len(keys) THEN 0
    ELSE IF /\ fd.lhs \subseteq keys[k] /\ fd.lhs # keys[k]
            /\ ~(fd.rhs \subseteq prime_attrs(keys))
         THEN k
         ELSE first_partial_key(fd, keys, k + 1)

\* the inner loop without its break: one message for each key that fits
RECURSIVE judge_2NF_every_key(_, _, _)
judge_2NF_every_key(atomic_fds, keys, n) ==
    IF n > Len(atomic_fds) THEN <<>>
    ELSE LET fd == atomic_fds[n]
             fits == {k \in DOMAIN keys :
                        /\ fd.lhs \subseteq keys[k] /\ fd.lhs # keys[k]
                        /\ ~(fd.rhs \subseteq prime_attrs(keys))}
         IN  [j \in 1..Cardinality(fits) |->
                 [kind |-> "partial dependency", lhs |-> JoinSorted(fd.lhs),
                  rhs |-> JoinSorted(fd.rhs),
                  key |-> JoinSorted(keys[CHOOSE k \in fits :
                                            Cardinality({m \in fits : m <= k}) = j])]]
             \o judge_2NF_every_key(atomic_fds, keys, n + 1)

RECURSIVE judge_2NF_from(_, _, _)
judge_2NF_from(atomic_fds, keys, n) ==
    IF n > Len(atomic_fds) THEN <<>>
    ELSE LET fd == atomic_fds[n]
             k == first_partial_key(fd, keys, 1)
         IN  (IF k # 0
              THEN <<[kind |-> "partial dependency", lhs |-> JoinSorted(fd.lhs),
                      rhs |-> JoinSorted(fd.rhs), key |-> JoinSorted(keys[k])]>>
              ELSE <<>>)
             \o judge_2NF_from(atomic_fds, keys, n + 1)

judge_2NF(atomic_fds, keys) == judge_2NF_from(atomic_fds, keys, 1)

\* all(not fd.lhs >= key for key in candidate_keys)
no_key_inside(fd, keys) == \A k \in DOMAIN keys : ~(keys[k] \subseteq fd.lhs)

RECURSIVE judge_3NF_from(_, _, _)
judge_3NF_from(atomic_fds, keys, n) ==
    IF n > Len(atomic_fds) THEN <<>>
    ELSE LET fd == atomic_fds[n]
         IN  (IF no_key_inside(fd, keys) /\ ~(fd.rhs \subseteq prime_attrs(keys))
              THEN <<[kind |-> "transitive dependency", lhs |-> JoinSorted(fd.lhs),
                      rhs |-> JoinSorted(fd.rhs)]>>
              ELSE <<>>)
             \o judge_3NF_from(atomic_fds, keys, n + 1)

judge_3NF(atomic_fds, keys) == judge_3NF_from(atomic_fds, keys, 1)

RECURSIVE judge_BCNF_from(_, _, _)
judge_BCNF_from(atomic_fds, keys, n) ==
    IF n > Len(atomic_fds) THEN <<>>
    ELSE LET fd == atomic_fds[n]
         IN  (IF no_key_inside(fd, keys)
              THEN <<[kind |-> "violates BCNF", lhs |-> JoinSorted(fd.lhs),
                      rhs |-> JoinSorted(fd.rhs)]>>
              ELSE <<>>)
             \o judge_BCNF_from(atomic_fds, keys, n + 1)

judge_BCNF(atomic_fds, keys) == judge_BCNF_from(atomic_fds, keys, 1)

\* the cascade with the 3NF and BCNF stages in each other's place
judge_NF_stages_swapped(U, F, bothOrder, rhsIter) ==
    LET keys == candidate_keys(U, F, bothOrder)
        atomic_fds == singleton_rhs(F, rhsIter)
        violations_2NF == judge_2NF(atomic_fds, keys)
        violations_3NF == judge_3NF(atomic_fds, keys)
        violations_BCNF == judge_BCNF(atomic_fds, keys)
    IN  IF violations_2NF # <<>> THEN <<"1NF", violations_2NF>>
        ELSE IF violations_BCNF # <<>> THEN <<"2NF", violations_BCNF>>
        ELSE IF violations_3NF # <<>> THEN <<"3NF", violations_3NF>>
        ELSE <<"BCNF", <<>> >>

\* RelationSchema.judge_NF: the keys are computed once, every judge takes its
\* own singleton_rhs() of the same FD objects
judge_NF(U, F, bothOrder, rhsIter) ==
    LET keys == candidate_keys(U, F, bothOrder)
        atomic_fds == singleton_rhs(F, rhsIter)
        violations_2NF == judge_2NF(atomic_fds, keys)
        violations_3NF == judge_3NF(atomic_fds, keys)
        violations_BCNF == judge_BCNF(atomic_fds, keys)
    IN  IF violations_2NF # <<>> THEN <<"1NF", violations_2NF>>
        ELSE IF violations_3NF # <<>> THEN <<"2NF", violations_3NF>>
        ELSE IF violations_BCNF # <<>> THEN <<"3NF", violations_BCNF>>
        ELSE <<"BCNF", <<>> >>

(***************************************************************************)
(* RelationSchema.is_lossless_decomposition: the loop over sub_schemas     *)
(* from position i on.                                                     *)
(***************************************************************************)
\* the loop answering for the first fragment alone
RECURSIVE lossless_first_only(_, _, _)
lossless_first_only(keys, sub_schemas, i) ==
    IF i > Len(sub_schemas) THEN FALSE
    ELSE \E k \in DOMAIN keys : keys[k] \subseteq sub_schemas[i]

RECURSIVE lossless_from(_, _, _)
lossless_from(keys, sub_schemas, i) ==
    IF i > Len(sub_schemas) THEN FALSE
    ELSE IF \E k \in DOMAIN keys : keys[k] \subseteq sub_schemas[i] THEN TRUE
    ELSE lossless_from(keys, sub_schemas, i + 1)

\* the method once candidate_keys() has returned keys
is_lossless_decomposition(keys, sub_schemas) == lossless_from(keys, sub_schemas, 1)

(***************************************************************************)
(* The state machine.                                                      *)
(***************************************************************************)
\* an FD list on its own: no schema is built around it
InitFD ==
    /\ default_fds = <<>>
    /\ instances = <<>>
    /\ attributes = {}
    /\ fds \in SeqsUpTo(FDsOver(Attrs), MaxFDs)
    /\ op = "idle"
    /\ arg = {}
    /\ ret = {}

\* the invariant RelationSchema relies on and does not enforce
WellFormed == Mentioned(fds) \subseteq attributes

\* RelationSchema.__init__: nothing ties the FDs to the attribute set
InitRS ==
    /\ default_fds = <<>>
    /\ instances = <<>>
    /\ attributes \in SUBSET Attrs
    /\ fds \in SeqsUpTo(FDsOver(Attrs), MaxFDs)
    /\ op = "idle"
    /\ arg = {}
    /\ ret = {}

\* the attributes a caller passes: those in use and those of the pool
Pool == Attrs \cup attributes \cup Mentioned(fds)

\* a call of fds.closure(X)
CallClosure ==
    /\ op = "idle"
    /\ \E X \in SUBSET Pool :
          /\ arg' = X
          /\ ret' = closure(fds, X)
    /\ op' = "closure"
    /\ UNCHANGED <<attributes, fds, default_fds, instances>>

\* a call of fds.canonical_cover()
CallCanonicalCover ==
    /\ op = "idle"
    /\ \E rhsIter \in RhsOrders(fds), lhsIter \in LhsOrders(fds) :
          IF cover_raises(singleton_rhs(fds, rhsIter))
          THEN /\ op' = "raised"
               /\ ret' = "StopIteration"
          ELSE /\ op' = "canonical_cover"
               /\ \E first \in FirstPicks(singleton_rhs(fds, rhsIter)) :
                     ret' = canonical_cover(fds, rhsIter, lhsIter, first)
    /\ arg' = {}
    /\ UNCHANGED <<attributes, fds, default_fds, instances>>

\* a call of fds.implies(fd)
CallImplies ==
    /\ op = "idle"
    /\ \E fd \in FDsOver(attributes \cup Mentioned(fds)) :
          /\ arg' = fd
          /\ ret' = implies(fds, fd)
    /\ op' = "implies"
    /\ UNCHANGED <<attributes, fds, default_fds, instances>>

\* a call of fds.singleton_rhs(); ret is the fds list of the new FDSet
CallSingletonRhs ==
    /\ op = "idle"
    /\ \E rhsIter \in RhsOrders(fds) :
          /\ arg' = rhsIter
          /\ ret' = singleton_rhs(fds, rhsIter)
    /\ op' = "singleton_rhs"
    /\ UNCHANGED <<attributes, fds, default_fds, instances>>

\* a call of candidate_keys()
CallCandidateKeys ==
    /\ op = "idle"
    /\ \E bothOrder \in Orders(both_sides(fds)) :
          ret' = candidate_keys(attributes, fds, bothOrder)
    /\ op' = "candidate_keys"
    /\ arg' = {}
    /\ UNCHANGED <<attributes, fds, default_fds, instances>>

\* a call of judge_NF(); arg records the iteration orders the call ran under
CallJudgeNF ==
    /\ op = "idle"
    /\ \E bothOrder \in Orders(both_sides(fds)), rhsIter \in RhsOrders(fds) :
          /\ arg' = <<bothOrder, rhsIter>>
          /\ ret' = judge_NF(attributes, fds, bothOrder, rhsIter)
    /\ op' = "judge_NF"
    /\ UNCHANGED <<attributes, fds, default_fds, instances>>

\* a call of is_lossless_decomposition(sub_schemas)
CallIsLossless ==
    /\ op = "idle"
    /\ \E bothOrder \in Orders(both_sides(fds)) :
          LET keys == candidate_keys(attributes, fds, bothOrder)
          IN  \E sub_schemas \in SeqsUpTo(SUBSET Attrs, MaxFrags) :
                 /\ arg' = sub_schemas
                 /\ ret' = is_lossless_decomposition(keys, sub_schemas)
    /\ op' = "is_lossless_decomposition"
    /\ UNCHANGED <<attributes, fds, default_fds, instances>>

\* the caller takes the result; the object is as it was
Return ==
    /\ op # "idle"
    /\ op' = "idle"
    /\ arg' = {}
    /\ ret' = {}
    /\ UNCHANGED <<attributes, fds, default_fds, instances>>

\* the methods of FDSet
NextFD ==
    \/ CallClosure
    \/ CallCanonicalCover
    \/ Return

\* the key search and the normal form judgment of RelationSchema
NextRS ==
    \/ CallCandidateKeys
    \/ CallJudgeNF
    \/ Return

\* the decomposition test of RelationSchema
NextLD ==
    \/ CallIsLossless
    \/ Return

SpecFD == InitFD /\ [][NextFD]_vars

SpecRS == InitRS /\ [][NextRS]_vars

\* the schemas the decomposition test is run on: all that keep the attribute
\* invariant, and those with at most one FD that break it
InitLD == InitRS /\ (WellFormed \/ Len(fds) <= 1)

SpecLD == InitLD /\ [][NextLD]_vars

\* FD(set(), rhs) is constructible: schemas some FD of which has no left side
InitEmptyLhs ==
    /\ default_fds = <<>>
    /\ instances = <<>>
    /\ attributes \in SUBSET LongAttrs
    /\ fds \in SeqsUpTo(FDsOver(LongAttrs), MaxFDs)
    /\ \E i \in DOMAIN fds : fds[i].lhs = {}
    /\ op = "idle"
    /\ arg = {}
    /\ ret = {}

\* every method of the core that reads the FD list
NextCore ==
    \/ CallClosure
    \/ CallImplies
    \/ CallSingletonRhs
    \/ CallCanonicalCover
    \/ CallCandidateKeys
    \/ CallJudgeNF
    \/ Return

SpecEmptyLhs == InitEmptyLhs /\ [][NextCore]_vars

\* a call of _judge_2NF(candidate_keys) with a key list of the caller's
CallJudge2NF ==
    /\ op = "idle"
    /\ \E keys \in SeqsUpTo(SUBSET Attrs, MaxKeys), rhsIter \in RhsOrders(fds) :
          /\ arg' = <<keys, rhsIter>>
          /\ ret' = judge_2NF(singleton_rhs(fds, rhsIter), keys)
    /\ op' = "_judge_2NF"
    /\ UNCHANGED <<attributes, fds, default_fds, instances>>

NextJudge2NF ==
    \/ CallJudge2NF
    \/ Return

SpecJudge2NF == InitFD /\ [][NextJudge2NF]_vars

\* the three judges, each called with the keys candidate_keys() returned
CallJudges ==
    /\ op = "idle"
    /\ \E bothOrder \in Orders(both_sides(fds)), rhsIter \in RhsOrders(fds) :
          LET keys == candidate_keys(attributes, fds, bothOrder)
              atomic_fds == singleton_rhs(fds, rhsIter)
          IN  /\ arg' = <<keys, rhsIter>>
              /\ ret' = <<judge_2NF(atomic_fds, keys), judge_3NF(atomic_fds, keys),
                          judge_BCNF(atomic_fds, keys)>>
    /\ op' = "judges"
    /\ UNCHANGED <<attributes, fds, default_fds, instances>>

NextJudges ==
    \/ CallJudges
    \/ Return

SpecJudges == InitRS /\ [][NextJudges]_vars

\* FD lists over identifiers of one and of two characters
InitLong ==
    /\ default_fds = <<>>
    /\ instances = <<>>
    /\ attributes = {}
    /\ fds \in SeqsUpTo(FDsOver(LongAttrs), MaxFDs)
    /\ op = "idle"
    /\ arg = {}
    /\ ret = {}

NextSingleton ==
    \/ CallSingletonRhs
    \/ Return

SpecSingleton == InitLong /\ [][NextSingleton]_vars

\* two FD lists to compare: fds is self.fds
InitEq ==
    /\ default_fds = <<>>
    /\ instances = <<>>
    /\ attributes = {}
    /\ fds \in SeqsUpTo(FDsOver(TwoAttrs), MaxFDs)
    /\ op = "idle"
    /\ arg = {}
    /\ ret = {}

\* a call of FDSet(fds) == FDSet(other)
CallEq ==
    /\ op = "idle"
    /\ \E other \in SeqsUpTo(FDsOver(TwoAttrs), MaxFDs) :
          /\ arg' = other
          /\ ret' = FDSetEq(fds, other)
    /\ op' = "__eq__"
    /\ UNCHANGED <<attributes, fds, default_fds, instances>>

NextEq ==
    \/ CallEq
    \/ Return

SpecEq == InitEq /\ [][NextEq]_vars

(***************************************************************************)
(* RelationSchema.from_str.  A Python string is the sequence of its        *)
(* characters.                                                             *)
(***************************************************************************)
\* the characters of the dependency strings
Chars == {"A", "-", ">", " "}

\* str.isspace for one character
IsSpace(c) == c \in {" ", "\t", "\n"}

\* the positions where "->" starts in s
ArrowAt(s) == {i \in 1..(Len(s) - 1) : s[i] = "-" /\ s[i + 1] = ">"}

\* "->" in s
HasArrow(s) == ArrowAt(s) # {}

\* s.split("->", 1) for a string that holds the token: cut at its first place
SplitArrow(s) ==
    LET i == CHOOSE a \in ArrowAt(s) : \A b \in ArrowAt(s) : a <= b
    IN  <<SubSeq(s, 1, i - 1), SubSeq(s, i + 2, Len(s))>>

strip_nothing(s) == s

\* s.strip()
RECURSIVE strip(_)
strip(s) ==
    IF s = <<>> THEN s
    ELSE IF IsSpace(Head(s)) THEN strip(Tail(s))
    ELSE IF IsSpace(s[Len(s)]) THEN strip(SubSeq(s, 1, Len(s) - 1))
    ELSE s

\* the loop of from_str from the i-th string on, fds holding the FDs built so
\* far: the ValueError raised, or the list handed to FDSet
RECURSIVE from_str_from(_, _, _)
from_str_from(fd_list, i, built) ==
    IF i > Len(fd_list) THEN [raised |-> FALSE, fds |-> built]
    ELSE LET fd_str == fd_list[i]
         IN  IF ~HasArrow(fd_str)
             THEN [raised |-> TRUE, error |-> "Invalid FD format (missing '->')",
                   fd_str |-> fd_str]
             ELSE LET parts == SplitArrow(fd_str)
                      lhs == CharSet(strip(parts[1]))
                      rhs == CharSet(strip(parts[2]))
                  IN  IF lhs = {}
                      THEN [raised |-> TRUE,
                            error |-> "Empty left-hand side in FD",
                            fd_str |-> fd_str]
                      ELSE from_str_from(fd_list, i + 1,
                                         Append(built, FD(lhs, rhs)))

\* no schema exists before the class method runs
InitParse ==
    /\ default_fds = <<>>
    /\ instances = <<>>
    /\ attributes = {}
    /\ fds = <<>>
    /\ op = "idle"
    /\ arg = {}
    /\ ret = {}

\* a call of RelationSchema.from_str(attrs, fd_list): ret is the error raised
\* or the schema returned
CallFromStr ==
    /\ op = "idle"
    /\ \E attrs \in SeqsUpTo({"A"}, 2), fd_list \in SeqsUpTo(SeqsUpTo(Chars, MaxStrLen), MaxFDs) :
          LET r == from_str_from(fd_list, 1, <<>>)
          IN  /\ arg' = <<attrs, fd_list>>
              /\ IF r.raised
                 THEN /\ op' = "raised"
                      /\ ret' = [error |-> r.error, fd_str |-> r.fd_str]
                 ELSE /\ op' = "from_str"
                      /\ ret' = [attributes |-> CharSet(attrs), fds |-> r.fds]
    /\ UNCHANGED <<attributes, fds, default_fds, instances>>

NextParse ==
    \/ CallFromStr
    \/ Return

SpecParse == InitParse /\ [][NextParse]_vars

(***************************************************************************)
(* FDSet.__init__ and the list objects behind self.fds.  The default       *)
(* argument [] is one list object, made when the def statement runs;       *)
(* default_fds is its content.  instances are the FDSet objects built so   *)
(* far: a shared one holds the default list object, the others the list    *)
(* object their caller passed.                                             *)
(***************************************************************************)
\* the FDs a caller appends
SomeFDs == {FD({<<"A">>}, {<<"B">>}), FD({<<"B">>}, {<<"C">>})}

\* self.fds of the i-th instance, in the heap (insts, dflt)
FdsOf(insts, dflt, i) == IF insts[i].shared THEN dflt ELSE insts[i].own

InitObj ==
    /\ default_fds = <<>>
    /\ instances = <<>>
    /\ attributes = {}
    /\ fds = <<>>
    /\ op = "idle"
    /\ arg = {}
    /\ ret = {}

\* FDSet(): self.fds is bound to the default list object
NewFDSet ==
    /\ Len(instances) < MaxInstances
    /\ instances' = Append(instances, [shared |-> TRUE, own |-> <<>>])
    /\ op' = "FDSet()"
    /\ arg' = Len(instances) + 1
    /\ UNCHANGED <<attributes, fds, ret, default_fds>>

\* FDSet(l) for a list object l the caller has just made
NewFDSetOf ==
    /\ Len(instances) < MaxInstances
    /\ \E l \in SeqsUpTo(SomeFDs, 1) :
          instances' = Append(instances, [shared |-> FALSE, own |-> l])
    /\ op' = "FDSet(l)"
    /\ arg' = Len(instances) + 1
    /\ UNCHANGED <<attributes, fds, ret, default_fds>>

\* instance.fds.append(fd): the list object the instance holds grows
AppendFD ==
    /\ \E i \in DOMAIN instances, fd \in SomeFDs :
          /\ Len(FdsOf(instances, default_fds, i)) < MaxListLen
          /\ arg' = i
          /\ IF instances[i].shared
             THEN /\ default_fds' = Append(default_fds, fd)
                  /\ UNCHANGED instances
             ELSE /\ instances' = [instances EXCEPT ![i].own = Append(@, fd)]
                  /\ UNCHANGED default_fds
    /\ op' = "append"
    /\ UNCHANGED <<attributes, fds, ret>>

\* instance.fds.pop(k - 1)
RemoveFD ==
    /\ \E i \in DOMAIN instances :
          \E k \in DOMAIN FdsOf(instances, default_fds, i) :
             /\ arg' = i
             /\ IF instances[i].shared
                THEN /\ default_fds' = Without(default_fds, k)
                     /\ UNCHANGED instances
                ELSE /\ instances' = [instances EXCEPT ![i].own = Without(@, k)]
                     /\ UNCHANGED default_fds
    /\ op' = "remove"
    /\ UNCHANGED <<attributes, fds, ret>>

NextObj ==
    \/ NewFDSet
    \/ NewFDSetOf
    \/ AppendFD
    \/ RemoveFD

SpecObj == InitObj /\ [][NextObj]_vars

(***************************************************************************)
(* Properties of closure.                                                  *)
(***************************************************************************)
\* S is closed under F: every FD whose left side lies in S has its right side in S
IsClosedUnder(F, S) == \A i \in DOMAIN F : F[i].lhs \subseteq S => F[i].rhs \subseteq S

\* the FD list F listed in the order p (a permutation of its positions)
Reordered(F, p) == [i \in DOMAIN F |-> F[p[i]]]

\* C1: closure(X) terminates (the while loop makes at most one pass per
\* attribute it can add, plus the final pass that adds nothing) and returns
\* the least set that contains X and is closed under the FDs, whatever the
\* order in which the FDs are listed.
C1_ClosureIsLeastClosedSet ==
    op = "closure" =>
        /\ arg \subseteq ret
        /\ IsClosedUnder(fds, ret)
        /\ \A T \in SUBSET (arg \cup Mentioned(fds)) :
               (arg \subseteq T /\ IsClosedUnder(fds, T)) => ret \subseteq T
        /\ \A p \in Permutations(DOMAIN fds) : closure(Reordered(fds, p), arg) = ret
        /\ closure_passes(fds, arg) <= Cardinality(Mentioned(fds) \ arg) + 1

\* a closure that needs three passes: the chain is listed against its direction
C1_Witness ==
    /\ op = "closure"
    /\ Cardinality(arg) = 1
    /\ Cardinality(ret) = 3
    /\ closure_passes(fds, arg) = 3

\* C2: closure is reflexive, monotone and idempotent.
C2_ClosureOperatorLaws ==
    op = "closure" =>
        /\ arg \subseteq ret
        /\ \A Y \in SUBSET Attrs : arg \subseteq Y => ret \subseteq closure(fds, Y)
        /\ closure(fds, ret) = ret

\* a closure that grows its argument, with a larger argument to compare with
C2_Witness ==
    /\ op = "closure"
    /\ arg # ret
    /\ arg # {}
    /\ \E Y \in SUBSET Attrs : arg \subseteq Y /\ Y # arg /\ closure(fds, Y) # ret


(***************************************************************************)
(* Properties of canonical_cover.                                          *)
(***************************************************************************)
\* C3: the canonical cover is semantically equal to the FD list it is taken
\* of (each implies every FD of the other), so both give every attribute
\* set the same closure.
C3_CoverIsEquivalent ==
    op = "canonical_cover" =>
        /\ FDSetEq(ret, fds)
        /\ FDSetEq(fds, ret)
        /\ \A X \in SUBSET Attrs : closure(ret, X) = closure(fds, X)

\* a cover of a list with a multi-attribute right side and an overlapping FD,
\* one of whose FDs has a left side no listed FD has
C3_Witness ==
    /\ op = "canonical_cover"
    /\ \E i \in DOMAIN fds : Cardinality(fds[i].rhs) >= 2
    /\ \E i \in DOMAIN fds : fds[i].lhs \cap fds[i].rhs # {}
    /\ \E j \in DOMAIN ret : \A i \in DOMAIN fds : ret[j].lhs # fds[i].lhs

\* C4: the canonical cover is minimal: singleton right sides, no FD twice, no
\* extraneous left attribute with respect to the closure under the original
\* list, and no FD implied by the other FDs of the cover.
C4_CoverIsMinimal ==
    op = "canonical_cover" =>
        /\ \A j \in DOMAIN ret : Cardinality(ret[j].rhs) = 1
        /\ \A j, k \in DOMAIN ret : j # k => ret[j] # ret[k]
        /\ \A j \in DOMAIN ret : \A b \in ret[j].lhs :
               ~(ret[j].rhs \subseteq closure(fds, ret[j].lhs \ {b}))
        /\ \A j \in DOMAIN ret : ~implies(Without(ret, j), ret[j])

\* a cover that kept a two-attribute left side and is shorter than the
\* elementary list it started from
C4_Witness ==
    /\ op = "canonical_cover"
    /\ Len(ret) >= 2
    /\ \E j \in DOMAIN ret : Cardinality(ret[j].lhs) = 2
    /\ \E i \in DOMAIN fds : Cardinality(fds[i].rhs) = 3

(***************************************************************************)
(* Properties of candidate_keys.                                           *)
(***************************************************************************)
\* the candidate keys by definition: the minimal subsets of the attributes
\* whose closure is all the attributes
TrueKeys ==
    {K \in SUBSET attributes :
        /\ closure(fds, K) = attributes
        /\ \A S \in SUBSET K : S # K => closure(fds, S) # attributes}

\* C5: every returned key is a minimal superkey: its closure is the attribute
\* set, and removing any one attribute, or passing to any proper subset,
\* loses that.
C5_KeysAreMinimalSuperkeys ==
    op = "candidate_keys" =>
        \A k \in DOMAIN ret :
            /\ closure(fds, ret[k]) = attributes
            /\ \A a \in ret[k] : closure(fds, ret[k] \ {a}) # attributes
            /\ \A S \in SUBSET ret[k] : S # ret[k] => closure(fds, S) # attributes

\* two keys returned, one of them of two attributes
C5_Witness ==
    /\ op = "candidate_keys"
    /\ Len(ret) >= 2
    /\ \E k \in DOMAIN ret : Cardinality(ret[k]) = 2

\* C6: on a schema that keeps the attribute invariant, the returned list holds
\* every candidate key, each once; with no FDs the one key is the attribute set.
C6_AllKeysOnce ==
    (op = "candidate_keys" /\ WellFormed) =>
        /\ {ret[k] : k \in DOMAIN ret} = TrueKeys
        /\ \A j, k \in DOMAIN ret : j # k => ret[j] # ret[k]
        /\ fds = <<>> => ret = <<attributes>>

\* a schema with an attribute that occurs on right sides only, and with keys
\* that take all of both, some of both, and differ
C6_Witness ==
    /\ op = "candidate_keys"
    /\ WellFormed
    /\ all_right(fds) \ all_left(fds) # {}
    /\ both_sides(fds) # {}
    /\ Len(ret) = 2

(***************************************************************************)
(* Properties of judge_NF.                                                 *)
(***************************************************************************)
\* C7: judge_NF is the short-circuiting cascade over one key list: 1NF with
\* the 2NF judge's list iff that list is not empty, 2NF with the 3NF judge's
\* list iff the first is empty and the second is not, 3NF with the BCNF
\* judge's list iff the first two are empty and the third is not, BCNF with
\* the empty list iff all three are empty.
C7_JudgeCascade ==
    op = "judge_NF" =>
        LET keys == candidate_keys(attributes, fds, arg[1])
            atomic_fds == singleton_rhs(fds, arg[2])
            V2 == judge_2NF(atomic_fds, keys)
            V3 == judge_3NF(atomic_fds, keys)
            VB == judge_BCNF(atomic_fds, keys)
        IN  /\ ret[1] \in {"1NF", "2NF", "3NF", "BCNF"}
            /\ ret[1] = "1NF" <=> V2 # <<>>
            /\ ret[1] = "2NF" <=> (V2 = <<>> /\ V3 # <<>>)
            /\ ret[1] = "3NF" <=> (V2 = <<>> /\ V3 = <<>> /\ VB # <<>>)
            /\ ret[1] = "BCNF" <=> (V2 = <<>> /\ V3 = <<>> /\ VB = <<>>)
            /\ ret[1] = "1NF" => ret[2] = V2
            /\ ret[1] = "2NF" => ret[2] = V3
            /\ ret[1] = "3NF" => ret[2] = VB
            /\ ret[2] = <<>> <=> ret[1] = "BCNF"

\* a judgment of a schema without overlapping FDs that passed the 2NF stage
\* and stopped at the 3NF stage
C7_Witness ==
    /\ op = "judge_NF"
    /\ WellFormed
    /\ \A i \in DOMAIN fds : fds[i].lhs \cap fds[i].rhs = {}
    /\ ret[1] = "2NF"
    /\ Len(ret[2]) >= 1

\* X -> a is a dependency the FDs imply and that is not trivial
ImpliedNonTrivial(X, a) == a \in closure(fds, X) /\ a \notin X

TruePrime == UNION TrueKeys
IsSuperkey(X) == attributes \subseteq closure(fds, X)

Satisfies2NF ==
    \A K \in TrueKeys : \A X \in SUBSET K : \A a \in attributes :
        (X # K /\ ImpliedNonTrivial(X, a)) => a \in TruePrime

Satisfies3NF ==
    \A X \in SUBSET attributes : \A a \in attributes :
        ImpliedNonTrivial(X, a) => (IsSuperkey(X) \/ a \in TruePrime)

SatisfiesBCNF ==
    \A X \in SUBSET attributes : \A a \in attributes :
        ImpliedNonTrivial(X, a) => IsSuperkey(X)

\* the highest normal form the schema satisfies
TrueLevel ==
    IF ~Satisfies2NF THEN "1NF"
    ELSE IF ~Satisfies3NF THEN "2NF"
    ELSE IF ~SatisfiesBCNF THEN "3NF"
    ELSE "BCNF"

\* C8: on a schema that keeps the attribute invariant, the level judge_NF
\* returns is the highest normal form the schema satisfies, by the
\* definitions over all the dependencies the FDs imply.
C8_LevelIsTrueLevel ==
    (op = "judge_NF" /\ WellFormed) => ret[1] = TrueLevel

(***************************************************************************)
(* Properties of is_lossless_decomposition.                                *)
(***************************************************************************)
\* C9: the answer is True iff some fragment contains some key that
\* candidate_keys() returns, whatever order the keys come in; it is False for
\* the empty fragment list.
C9_LosslessIffFragmentHoldsKey ==
    op = "is_lossless_decomposition" =>
        /\ \A o \in Orders(both_sides(fds)) :
               LET keys == candidate_keys(attributes, fds, o)
               IN  ret = (\E i \in DOMAIN arg : \E k \in DOMAIN keys :
                              keys[k] \subseteq arg[i])
        /\ arg = <<>> => ret = FALSE

\* the answer True on account of the second fragment only
C9_Witness ==
    /\ op = "is_lossless_decomposition"
    /\ ret = TRUE
    /\ Len(arg) = 2
    /\ \A K \in TrueKeys : ~(K \subseteq arg[1])
    /\ TrueKeys # {}

\* C10: for two fragments that cover the attributes of a schema keeping the
\* attribute invariant, the answer True means the join is lossless: the
\* common attributes determine one of the fragments.
C10_TrueMeansLosslessJoin ==
    (/\ op = "is_lossless_decomposition"
     /\ WellFormed
     /\ Len(arg) = 2
     /\ ret = TRUE) =>
        (arg[1] \cup arg[2] = attributes =>
            LET common == closure(fds, arg[1] \cap arg[2])
            IN  arg[1] \subseteq common \/ arg[2] \subseteq common)

(***************************************************************************)
(* Properties of the FDSet constructor.                                    *)
(***************************************************************************)
\* C11: every FDSet owns its list: an FDSet() just built has no FDs, and an
\* append to or a removal from one instance's list leaves the list of every
\* other instance as it was.
C11_InstancesOwnTheirLists ==
    [][/\ op' = "FDSet()" => FdsOf(instances', default_fds', arg') = <<>>
       /\ op' \in {"append", "remove"} =>
             \A j \in DOMAIN instances :
                j # arg' => FdsOf(instances', default_fds', j)
                             = FdsOf(instances, default_fds, j)]_vars

(***************************************************************************)
(* Properties of FDs without a left side.                                  *)
(***************************************************************************)
\* C12: with an FD of empty left side in the list, no call of closure,
\* implies, singleton_rhs, canonical_cover, candidate_keys or judge_NF raises,
\* and closure(X) holds the right side of every such FD, for every X.
C12_EmptyLhsNeverRaises ==
    (\E i \in DOMAIN fds : fds[i].lhs = {}) =>
       /\ op # "raised"
       /\ op = "closure" =>
             \A i \in DOMAIN fds : fds[i].lhs = {} => fds[i].rhs \subseteq ret

\* canonical_cover has returned for a list where an empty left side feeds a
\* second FD
C12_Witness ==
    /\ op = "canonical_cover"
    /\ Len(fds) = 2
    /\ fds[1].lhs = {} /\ fds[1].rhs = {<<"A">>}
    /\ fds[2].lhs = {<<"A">>} /\ fds[2].rhs = {<<"A", "B">>}

(***************************************************************************)
(* Properties of from_str.                                                 *)
(***************************************************************************)
\* the part of s before its first "->"
LeftOf(s) ==
    {j \in DOMAIN s : \A a \in ArrowAt(s) : j < a}

\* the part of s after its first "->"
RightOf(s) ==
    {j \in DOMAIN s : \A a \in ArrowAt(s) : \A b \in ArrowAt(s) : a <= b => j > a + 1}

\* s has no "->", or nothing but whitespace before it
Offending(s) ==
    \/ ~HasArrow(s)
    \/ \A j \in LeftOf(s) : IsSpace(s[j])

\* the characters at the positions P of s, the whitespace around them dropped
Trimmed(s, P) ==
    {<<s[j]>> : j \in {j \in P : ~IsSpace(s[j])
                                 \/ (\E a, b \in P : a < j /\ j < b
                                        /\ ~IsSpace(s[a]) /\ ~IsSpace(s[b]))}}

\* C13: from_str raises iff some dependency string has no "->" or nothing but
\* whitespace before it, the error is that of the first such string of the
\* list, and otherwise the schema has one FD per string, in the order of the
\* strings, each with a left side that is not empty.
C13_FromStrValidates ==
    op \in {"from_str", "raised"} =>
       LET fd_list == arg[2]
           bad == {i \in DOMAIN fd_list : Offending(fd_list[i])}
       IN  /\ op = "raised" <=> bad # {}
           /\ op = "raised" =>
                 LET i == CHOOSE a \in bad : \A b \in bad : a <= b
                 IN  /\ ret.fd_str = fd_list[i]
                     /\ ret.error = IF HasArrow(fd_list[i])
                                    THEN "Empty left-hand side in FD"
                                    ELSE "Invalid FD format (missing '->')"
           /\ op = "from_str" =>
                 /\ ret.attributes = CharSet(arg[1])
                 /\ Len(ret.fds) = Len(fd_list)
                 /\ \A i \in DOMAIN fd_list :
                       /\ ret.fds[i].lhs # {}
                       /\ ret.fds[i].lhs = Trimmed(fd_list[i], LeftOf(fd_list[i]))
                       /\ ret.fds[i].rhs = Trimmed(fd_list[i], RightOf(fd_list[i]))

\* the second string of the list is the first to offend: its left side is
\* a blank
C13_Witness ==
    /\ op = "raised"
    /\ arg[2] = << <<"A", "-", ">", "A">>, <<" ", "-", ">", "A">> >>
    /\ ret.error = "Empty left-hand side in FD"

(***************************************************************************)
(* Properties of FDSet.__eq__.                                             *)
(***************************************************************************)
\* F and G force the same attributes from every attribute set
SameClosures(F, G) ==
    \A X \in SUBSET (Attrs \cup Mentioned(F) \cup Mentioned(G)) :
       closure(F, X) = closure(G, X)

\* C14: F == G is True iff each list implies every FD of the other, that is
\* iff they have the same closures; == is reflexive, symmetric and
\* transitive, True for F reordered or doubled and for F with FDs it implies
\* added, False when an FD of one list is not implied by the other.
C14_EqIsEquivalence ==
    op = "__eq__" =>
       /\ ret <=> /\ \A i \in DOMAIN arg : arg[i].rhs \subseteq closure(fds, arg[i].lhs)
                  /\ \A i \in DOMAIN fds : fds[i].rhs \subseteq closure(arg, fds[i].lhs)
       /\ ret <=> SameClosures(fds, arg)
       /\ FDSetEq(fds, fds)
       /\ ret = FDSetEq(arg, fds)
       /\ ret => \A H \in SeqsUpTo(FDsOver(TwoAttrs), MaxFDs) :
                    FDSetEq(arg, H) => FDSetEq(fds, H)
       /\ \A p \in Permutations(DOMAIN fds) : FDSetEq(fds, Reordered(fds, p))
       /\ FDSetEq(fds, fds \o fds)
       /\ (\A i \in DOMAIN arg : implies(fds, arg[i])) => FDSetEq(fds, fds \o arg)
       /\ (\E i \in DOMAIN arg : ~implies(fds, arg[i])) => ~ret

\* two lists that differ as lists and are equal: A -> B, B -> A against
\* B -> AB, A -> AB
C14_Witness ==
    /\ op = "__eq__"
    /\ ret = TRUE
    /\ fds = <<FD({<<"A">>}, {<<"B">>}), FD({<<"B">>}, {<<"A">>})>>
    /\ arg = <<FD({<<"B">>}, {<<"A">>, <<"B">>}), FD({<<"A">>}, {<<"A">>, <<"B">>})>>

(***************************************************************************)
(* Properties of singleton_rhs.                                            *)
(***************************************************************************)
\* |Y| summed over the FDs (X, Y) of F from the i-th on
RECURSIVE RhsTotal(_, _)
RhsTotal(F, i) ==
    IF i > Len(F) THEN 0 ELSE Cardinality(F[i].rhs) + RhsTotal(F, i + 1)

\* C15: singleton_rhs returns one FD (X, {a}) for each FD (X, Y) of the list
\* and each attribute a of Y, in list order and nothing else: as many FDs as
\* the right sides have attributes, each with the left side of its FD and
\* one attribute of its right side; the FD list itself stays as it was.
\* Identifiers may have any length.
C15_SingletonRhsElementary ==
    [][op' = "singleton_rhs" =>
          /\ fds' = fds
          /\ Len(ret') = RhsTotal(fds, 1)
          /\ \A n \in DOMAIN ret' :
                LET i == singleton_origin(fds, arg')[n]
                IN  /\ ret'[n].lhs = fds[i].lhs
                    /\ Cardinality(ret'[n].rhs) = 1
                    /\ ret'[n].rhs \subseteq fds[i].rhs
          /\ \A i \in DOMAIN fds : \A a \in fds[i].rhs :
                Cardinality({n \in DOMAIN ret' :
                               /\ singleton_origin(fds, arg')[n] = i
                               /\ ret'[n] = FD(fds[i].lhs, {a})}) = 1]_vars

(***************************************************************************)
(* Properties of the judges.                                               *)
(***************************************************************************)
\* the keys of the list that hold X and more
KeysAround(X, keys) == {k \in DOMAIN keys : X \subseteq keys[k] /\ X # keys[k]}

\* the elementary FDs X -> a with X inside some key and a in no key
PartialOn(atomic_fds, keys) ==
    {n \in DOMAIN atomic_fds :
        /\ KeysAround(atomic_fds[n].lhs, keys) # {}
        /\ \E a \in atomic_fds[n].rhs : \A k \in DOMAIN keys : a \notin keys[k]}

\* C16: _judge_2NF(keys) reports one violation for each elementary FD X -> a
\* with X a proper subset of some key and a outside every key, in the order
\* of the elementary FDs, naming the first key of the list that holds X, and
\* nothing for any other FD: none when X is a key, none when a is prime.
C16_Judge2NFReportsPartial ==
    op = "_judge_2NF" =>
       LET keys == arg[1]
           atomic_fds == singleton_rhs(fds, arg[2])
           hits == PartialOn(atomic_fds, keys)
       IN  /\ Len(ret) = Cardinality(hits)
           /\ \A n \in hits :
                 LET at == Cardinality({m \in hits : m <= n})
                     around == KeysAround(atomic_fds[n].lhs, keys)
                     k == CHOOSE a \in around : \A b \in around : a <= b
                 IN  ret[at] = [kind |-> "partial dependency",
                                lhs |-> JoinSorted(atomic_fds[n].lhs),
                                rhs |-> JoinSorted(atomic_fds[n].rhs),
                                key |-> JoinSorted(keys[k])]

\* two keys hold the empty left side of {} -> C: one violation, on the first
C16_Witness ==
    /\ op = "_judge_2NF"
    /\ arg[1] = <<{<<"B">>}, {<<"A">>}>>
    /\ fds = <<FD({}, {<<"C">>}), FD({<<"A">>}, {<<"B">>})>>
    /\ Len(ret) = 1
    /\ ret[1].key = <<"B">>

\* the FDs a list of violations is about
ReportedFDs(violations) ==
    {<<violations[j].lhs, violations[j].rhs>> : j \in DOMAIN violations}

\* C17: with the keys of candidate_keys() and FDs over the attributes of the
\* schema, every FD _judge_2NF reports _judge_3NF reports too, and every FD
\* _judge_3NF reports _judge_BCNF reports too; so no later judge is clean
\* while an earlier one is not.
C17_JudgesNested ==
    (op = "judges" /\ WellFormed) =>
       /\ ReportedFDs(ret[1]) \subseteq ReportedFDs(ret[2])
       /\ ReportedFDs(ret[2]) \subseteq ReportedFDs(ret[3])
       /\ ret[1] # <<>> => ret[2] # <<>>
       /\ ret[2] # <<>> => ret[3] # <<>>

\* A -> C under the key AB: reported by all three judges, while B -> B is
\* reported by _judge_BCNF alone
C17_Witness ==
    /\ op = "judges"
    /\ WellFormed
    /\ fds = <<FD({<<"A">>}, {<<"C">>}), FD({<<"B">>}, {<<"B">>})>>
    /\ Len(ret[1]) = 1
    /\ Len(ret[2]) = 1
    /\ Len(ret[3]) = 2

====
